---- MODULE Spec2Model ----
(***************************************************************************)
(* A model of the PDF object-graph writer (PdfWriter) and of the inline-   *)
(* image scanner of the content-stream parser (ParseInlineImage).          *)
(*                                                                         *)
(* PDF objects live in a heap addressed by handles (strings).  A value of  *)
(* the Go interface PdfObject is a record [t, h, n]: t is the dynamic      *)
(* type, h the handle of the pointee (the pointer identity), n an integer  *)
(* payload.  Two values are the same Go interface value exactly when the   *)
(* records are equal.                                                      *)
(***************************************************************************)
EXTENDS Integers, Sequences, FiniteSets, TLC

VARIABLES
    dicts,          \* heap: dictionary handle -> (key -> value)
    arrays,         \* heap: array handle -> sequence of values
    body,           \* heap: indirect-object handle -> value (PdfIndirectObject.PdfObject)
    objects,        \* PdfWriter.objects
    pendingObjects, \* PdfWriter.pendingObjects: referent value -> dictionary handle
    fields,         \* PdfWriter.fields
    outlineTree,    \* PdfWriter.outlineTree (the value its ToPdfObject yields, or Nil)
    acroForm,       \* PdfWriter.acroForm (the value its ToPdfObject yields, or Nil)
    crypter,        \* PdfWriter.crypter
    encryptObj,     \* PdfWriter.encryptObj
    ids,            \* PdfWriter.ids
    objNum,         \* ObjectNumber/GenerationNumber fields of indirect and stream objects
    out,            \* what the last Write produced
    hist,           \* history of the calls made so far (observations for the properties)
    scan,           \* ParseInlineImage: the scanner of the image data
    im,             \* ParseInlineImage: the fields of the image read so far
    text,           \* ExtractText: the loop over the operations
    call            \* AddPage run step by step: its position, the stack of addObjects

vars == <<dicts, arrays, body, objects, pendingObjects, fields, outlineTree, acroForm,
          crypter, encryptObj, ids, objNum, out, hist, scan, im, text, call>>

writerVars == <<dicts, arrays, body, objects, pendingObjects, fields, outlineTree,
                acroForm, crypter, encryptObj, ids, objNum, out, hist>>

-----------------------------------------------------------------------------
(* Bounds of the model.                                                    *)

\* Number of writer calls (AddPage, SetOCProperties, ..., Write) in a run.
MaxOps == 3
\* Number of data bytes handed to the inline-image scanner.
MaxLen == 7

-----------------------------------------------------------------------------
(* Values.                                                                 *)

Val(t, h, n) == [t |-> t, h |-> h, n |-> n]
Nil      == Val("nil", "", 0)          \* the nil interface (absent map entry)
Null     == Val("null", "", 0)         \* *PdfObjectNull
Name(s)  == Val("name", s, 0)          \* *PdfObjectName
IntV(n)  == Val("int", "", n)          \* *PdfObjectInteger
Str(s)   == Val("str", s, 0)           \* *PdfObjectString (s names the string)
Ref(h)   == Val("ref", h, 0)           \* *PdfObjectReference (unresolved)
Ind(h)   == Val("ind", h, 0)           \* *PdfIndirectObject
Strm(h)  == Val("stream", h, 0)        \* *PdfObjectStream; its dictionary is dicts[h]
Dict(h)  == Val("dict", h, 0)          \* *PdfObjectDictionary
Arr(h)   == Val("arr", h, 0)           \* *PdfObjectArray
NilArr   == Val("nilarr", "", 0)       \* (*PdfObjectArray)(nil)

\* m[k] of a Go map: the nil interface when k is absent.
Get(m, k) == IF k \in DOMAIN m THEN m[k] ELSE Nil
\* m[k] = v of a Go map.
Put(m, k, v) == [x \in DOMAIN m \cup {k} |-> IF x = k THEN v ELSE m[x]]

Range(s) == {s[i] : i \in 1..Len(s)}

\* Values addObjects treats as leaves: it returns nil on them without touching the writer.
IsLeaf(v) == v.t \in {"nil", "null", "name", "int", "str"}

-----------------------------------------------------------------------------
(* The writer's fixed objects, created by NewPdfWriter.                    *)

InfoObj == Ind("info")        \* PdfWriter.infoObj
Root    == Ind("catalog")     \* PdfWriter.root; PdfWriter.catalog is dicts["catalog"]
Pages   == Ind("pages")       \* PdfWriter.pages; its Kids array is arrays["kids"]

-----------------------------------------------------------------------------
(* Registration and traversal.                                             *)
(*                                                                         *)
(* A traversal state is a record                                           *)
(*   objs : PdfWriter.objects                                              *)
(*   pend : PdfWriter.pendingObjects                                       *)
(*   err  : the error being returned ("ok" is nil)                         *)
(*   hit  : observation - addObject met an object already registered       *)
(*   ref  : observation - the traversal visited a dictionary whose Parent  *)
(*          is a bare Reference, or reached a bare Reference elsewhere     *)
(*   seen : observation - the dictionaries the traversal visited           *)
(***************************************************************************)

hasObject(objs, obj) == \E i \in 1..Len(objs) : objs[i] = obj

\* A registration that appends without looking the object up.
addObjectBlind(objs, obj) ==
    [objs |-> Append(objs, obj), added |-> ~hasObject(objs, obj)]

\* A registration that takes every object for a new one.
addObjectAlways(objs, obj) == [objs |-> Append(objs, obj), added |-> TRUE]

\* addObject: the new object list and whether the object was added.
addObject(objs, obj) ==
    IF ~hasObject(objs, obj)
    THEN [objs |-> Append(objs, obj), added |-> TRUE]
    ELSE [objs |-> objs, added |-> FALSE]

TravState(objs, pend) ==
    [objs |-> objs, pend |-> pend, err |-> "ok", hit |-> FALSE, ref |-> FALSE,
     seen |-> {}]

\* A Parent entry that only records the pending referent and never fails.
parentEntryLenient(hp, d, st) ==
    LET v == hp.dicts[d]["Parent"] IN
    IF v.t = "null" THEN st
    ELSE IF ~hasObject(st.objs, v) THEN [st EXCEPT !.pend = Put(@, v, d)] ELSE st

\* The Parent branch of addObjects' dictionary loop: dictionary d of heap hp.
parentEntry(hp, d, st) ==
    LET v == hp.dicts[d]["Parent"] IN
    IF v.t = "null" THEN st
    ELSE LET s1 == IF ~hasObject(st.objs, v)
                   THEN [st EXCEPT !.pend = Put(@, v, d)]
                   ELSE st
         IN  IF v.t = "ref"
             THEN [s1 EXCEPT !.err = "ParentIsReference"]
             ELSE s1

\* A range over dictionary d that passes over its stream values.
ActiveKeysNoStreams(hp, d) ==
    {k \in DOMAIN hp.dicts[d] :
        k = "Parent" \/ (~IsLeaf(hp.dicts[d][k]) /\ hp.dicts[d][k].t # "stream")}

\* The entries of dictionary d whose visit can change the writer or fail.  Go
\* ranges over a map in an unspecified order; visiting a leaf changes nothing,
\* so only the relative order of these entries matters.
ActiveKeys(hp, d) ==
    {k \in DOMAIN hp.dicts[d] : k = "Parent" \/ ~IsLeaf(hp.dicts[d][k])}

RECURSIVE addObjects(_, _, _)
RECURSIVE addDictEntries(_, _, _, _)
RECURSIVE addArrayElems(_, _, _, _)

\* addObjects on value obj from traversal state st: the set of traversal states
\* it can end in (one for every order in which the maps can be ranged over).
addObjects(hp, obj, st) ==
    CASE obj.t = "ind" ->
           LET r  == addObject(st.objs, obj)
               s1 == [st EXCEPT !.objs = r.objs, !.hit = @ \/ ~r.added]
           IN  IF r.added THEN addObjects(hp, hp.body[obj.h], s1) ELSE {s1}
      [] obj.t = "stream" ->
           LET r  == addObject(st.objs, obj)
               s1 == [st EXCEPT !.objs = r.objs, !.hit = @ \/ ~r.added]
           IN  IF r.added THEN addObjects(hp, Dict(obj.h), s1) ELSE {s1}
      [] obj.t = "dict" ->
           LET s0 == [st EXCEPT !.ref = @ \/ Get(hp.dicts[obj.h], "Parent").t = "ref",
                                !.seen = @ \cup {obj.h}]
           IN  addDictEntries(hp, obj.h, ActiveKeys(hp, obj.h), s0)
      [] obj.t = "nilarr" -> {[st EXCEPT !.err = "ArrayIsNil"]}
      [] obj.t = "arr" -> addArrayElems(hp, obj.h, 1, st)
      [] obj.t = "ref" -> {[st EXCEPT !.err = "ReferenceNotAllowed", !.ref = TRUE]}
      [] OTHER -> {st}

\* The rest of the range over dictionary d: todo are the entries not yet visited.
addDictEntries(hp, d, todo, st) ==
    IF todo = {} THEN {st}
    ELSE UNION {
           LET after == IF k = "Parent"
                        THEN {parentEntry(hp, d, st)}
                        ELSE addObjects(hp, hp.dicts[d][k], st)
           IN  UNION { IF s.err # "ok" THEN {s}
                       ELSE addDictEntries(hp, d, todo \ {k}, s) : s \in after }
           : k \in todo }

\* The rest of the range over array a, from index i on.
addArrayElems(hp, a, i, st) ==
    IF i > Len(hp.arrays[a]) THEN {st}
    ELSE UNION { IF s.err # "ok" THEN {s}
                 ELSE addArrayElems(hp, a, i + 1, s)
                 : s \in addObjects(hp, hp.arrays[a][i], st) }

-----------------------------------------------------------------------------
(* AddPage.                                                                *)

\* inheritedFields of AddPage.
InheritedFields == {"Resources", "MediaBox", "CropBox", "Rotate"}

\* An inheritance step in which the ancestor's value replaces the page's own.
inheritFromOverwrite(pDict, parentDict) ==
    [k \in DOMAIN pDict \cup (InheritedFields \cap DOMAIN parentDict) |->
        IF k \in InheritedFields \cap DOMAIN parentDict THEN parentDict[k] ELSE pDict[k]]

\* The loop over inheritedFields for one ancestor: the page dictionary after
\* copying from parentDict the fields the page does not have already.
inheritFrom(pDict, parentDict) ==
    [k \in DOMAIN pDict \cup (InheritedFields \cap DOMAIN parentDict) |->
        IF k \in DOMAIN pDict THEN pDict[k] ELSE parentDict[k]]

RECURSIVE inheritWalk(_, _, _, _)
\* The "for hasParent" loop of AddPage: pd is the page dictionary, parent the
\* value of the Parent entry the loop is about to look at.  Yields the
\* dictionaries after the loop and its error.
inheritWalk(ds, bd, pd, parent) ==
    IF parent.t # "ind" THEN [dicts |-> ds, err |-> "ok"]
    ELSE IF bd[parent.h].t # "dict" THEN [dicts |-> ds, err |-> "InvalidParent"]
    ELSE LET parentDict == ds[bd[parent.h].h]
             ds1 == [ds EXCEPT ![pd] = inheritFrom(ds[pd], parentDict)]
         IN  inheritWalk(ds1, bd, pd, Get(ds1[bd[parent.h].h], "Parent"))

\* Checks that take any dictionary for a page.
pageCheckAnyType(ds, bd, obj) ==
    IF obj.t # "ind" THEN "PageNotIndirect"
    ELSE IF bd[obj.h].t # "dict" THEN "PageNotDictionary"
    ELSE "ok"

\* The checks at the top of AddPage on obj = page.ToPdfObject(): "ok" or the error.
pageCheck(ds, bd, obj) ==
    IF obj.t # "ind" THEN "PageNotIndirect"
    ELSE IF bd[obj.h].t # "dict" THEN "PageNotDictionary"
    ELSE IF Get(ds[bd[obj.h].h], "Type").t # "name" THEN "PageTypeNotName"
    ELSE IF Get(ds[bd[obj.h].h], "Type") # Name("Page") THEN "PageTypeNotPage"
    ELSE "ok"

\* The update of the root Pages node that forgets to count the page.
addToPagesNoCount(ds, ar, pageObj) ==
    [dicts |-> ds, arrays |-> [ar EXCEPT !["kids"] = Append(@, pageObj)], err |-> "ok"]

\* "Add to Pages" of AddPage: append the page to Kids, add one to Count.
addToPages(ds, ar, pageObj) ==
    IF body["pages"].t # "dict" THEN [dicts |-> ds, arrays |-> ar, err |-> "InvalidPages"]
    ELSE IF Get(ds["pages"], "Kids").t # "arr"
    THEN [dicts |-> ds, arrays |-> ar, err |-> "InvalidKids"]
    ELSE LET ar1 == [ar EXCEPT ![ds["pages"]["Kids"].h] = Append(@, pageObj)] IN
         IF Get(ds["pages"], "Count").t # "int"
         THEN [dicts |-> ds, arrays |-> ar1, err |-> "InvalidCount"]
         ELSE [dicts |-> [ds EXCEPT !["pages"]["Count"] = IntV(@.n + 1)],
               arrays |-> ar1, err |-> "ok"]

\* What a call leaves behind: the heap, and the traversal state st it ended in
\* (object list, pending map, error, observations).
Outcome(ds, ar, st) ==
    [dicts |-> ds, arrays |-> ar, objs |-> st.objs, pend |-> st.pend,
     err |-> st.err, hit |-> st.hit, ref |-> st.ref, seen |-> st.seen]
\* The outcome of a call that returns err before any traversal.
Early(ds, ar, err) ==
    Outcome(ds, ar, [TravState(objects, pendingObjects) EXCEPT !.err = err])

\* AddPage(page) with obj = page.ToPdfObject(): the set of its outcomes.
addPage(obj) ==
    LET chk == pageCheck(dicts, body, obj) IN
    IF chk # "ok"
    THEN {Early(dicts, arrays, chk)}
    ELSE
    LET pd == body[obj.h].h
        w  == inheritWalk(dicts, body, pd, Get(dicts[pd], "Parent"))
    IN
    IF w.err # "ok"
    THEN {Early(w.dicts, arrays, w.err)}
    ELSE
    LET ds1 == [w.dicts EXCEPT ![pd] = Put(@, "Parent", Pages)]
        ap  == addToPages(ds1, arrays, obj)
    IN
    IF ap.err # "ok"
    THEN {Early(ap.dicts, ap.arrays, ap.err)}
    ELSE
    LET r  == addObject(objects, obj)
        hp == [dicts |-> ap.dicts, arrays |-> ap.arrays, body |-> body]
        s0 == [TravState(r.objs, pendingObjects) EXCEPT !.hit = ~r.added]
    IN  { Outcome(ap.dicts, ap.arrays, s) : s \in addObjects(hp, Dict(pd), s0) }

\* The errors AddPage returns before it touches the root Pages node.
RejectErrors ==
    {"PageNotIndirect", "PageNotDictionary", "PageTypeNotName", "PageTypeNotPage",
     "InvalidParent"}

-----------------------------------------------------------------------------
(* SetOCProperties, AddForms.                                              *)

\* SetOCProperties(ocProperties): the error of addObjects is dropped, the
\* call returns nil; the outcome keeps the traversal's error in err.
setOCProperties(obj) ==
    IF obj = Nil
    THEN {Early(dicts, arrays, "ok")}
    ELSE LET ds1 == [dicts EXCEPT !["catalog"] = Put(@, "OCProperties", obj)]
             hp  == [dicts |-> ds1, arrays |-> arrays, body |-> body]
         IN  { Outcome(ds1, arrays, s)
               : s \in addObjects(hp, obj, TravState(objects, pendingObjects)) }

RECURSIVE seekByName(_, _, _, _)
\* seekByName: the values found under key, following only followKeys.  The
\* caller looks at each value on its own, so the list is kept as a set.
seekByName(hp, obj, followKeys, key) ==
    CASE obj.t = "ind" -> seekByName(hp, hp.body[obj.h], followKeys, key)
      [] obj.t = "stream" -> seekByName(hp, Dict(obj.h), followKeys, key)
      [] obj.t = "dict" ->
           LET d == hp.dicts[obj.h] IN
           (IF key \in DOMAIN d THEN {d[key]} ELSE {})
           \cup UNION { seekByName(hp, d[k], followKeys, key)
                        : k \in followKeys \cap DOMAIN d }
      [] OTHER -> {}

\* The fields array AddForms works on (Nil when there is none).
formFields(hp, forms) ==
    LET f == Get(hp.dicts[forms], "Fields") IN
    IF f.t = "arr" THEN f
    ELSE IF f.t = "ind" /\ hp.body[f.h].t = "arr" THEN hp.body[f.h]
    ELSE Nil

RECURSIVE addFormFields(_, _, _, _)
\* The loop "Add the fields" of AddForms from index i on; st holds the object
\* list, the writer's fields, the error and the observation hit.
addFormFields(hp, a, i, st) ==
    IF i > Len(hp.arrays[a]) THEN st
    ELSE LET field == hp.arrays[a][i] IN
         IF field.t # "ind" THEN [st EXCEPT !.err = "FieldNotIndirect"]
         ELSE LET list == seekByName(hp, field, {"Fields", "Kids"}, "P") IN
              IF list = {} THEN addFormFields(hp, a, i + 1, st)
              ELSE IF \E p \in list : p.t = "ind" /\ ~hasObject(st.objs, p)
              THEN [st EXCEPT !.err = "POutsidePages"]
              ELSE IF \E p \in list : p.t = "ind" /\ hasObject(st.objs, p)
              THEN LET r == addObject(st.objs, field) IN
                   addFormFields(hp, a, i + 1,
                       [st EXCEPT !.objs = r.objs, !.fields = Append(@, field),
                                  !.hit = @ \/ ~r.added])
              ELSE addFormFields(hp, a, i + 1, st)

\* AddForms(forms): forms is Nil or a dictionary.
addForms(forms) ==
    LET hp == [dicts |-> dicts, arrays |-> arrays, body |-> body]
        s0 == [objs |-> objects, fields |-> fields, err |-> "ok", hit |-> FALSE]
    IN  IF forms = Nil THEN [s0 EXCEPT !.err = "FormsNil"]
        ELSE LET fa == formFields(hp, forms.h) IN
             IF fa = Nil THEN s0 ELSE addFormFields(hp, fa.h, 1, s0)

-----------------------------------------------------------------------------
(* Write.                                                                  *)

\* The pending check of Write for the entry of referent v: the dictionaries it
\* can leave.  The range over the dictionary stops at the first entry holding
\* v, whichever the map yields first.
resolveOne(ds, objs, pend, v) ==
    IF hasObject(objs, v) THEN {ds}
    ELSE LET d  == pend[v]
             ks == {k \in DOMAIN ds[d] : ds[d][k] = v}
         IN  IF ks = {} THEN {ds}
             ELSE {[ds EXCEPT ![d][k] = Null] : k \in ks}

RECURSIVE resolvePending(_, _, _, _)
\* "Check pending objects prior to write" for the entries todo.  An entry only
\* rewrites values equal to its own referent, so the order in which the map is
\* ranged over does not change the result.
resolvePending(ds, objs, pend, todo) ==
    IF todo = {} THEN {ds}
    ELSE LET v == CHOOSE x \in todo : TRUE IN
         UNION { resolvePending(d1, objs, pend, todo \ {v})
                 : d1 \in resolveOne(ds, objs, pend, v) }

\* A numbering that starts at 0.
updateObjectNumbersFromZero(objs) ==
    [o \in Range(objs) |->
        [num |-> (CHOOSE i \in 1..Len(objs) :
                    objs[i] = o /\ \A j \in (i + 1)..Len(objs) : objs[j] # o) - 1,
         gen |-> 0]]

\* updateObjectNumbers: number idx+1 and generation 0 for the object at idx.
updateObjectNumbers(objs) ==
    [o \in Range(objs) |->
        [num |-> CHOOSE i \in 1..Len(objs) :
                    objs[i] = o /\ \A j \in (i + 1)..Len(objs) : objs[j] # o,
         gen |-> 0]]

\* The bytes of the output, each tagged with what it belongs to: k is the part
\* of the file, o the object number written in it, i the index within the part.
Byte(k, o, i) == [k |-> k, o |-> o, i |-> i]
Header == <<Byte("header", 0, 1), Byte("header", 0, 2)>>

\* The number of bytes of an object's body: one per entry of what it holds.
BodySize(hp, obj) ==
    CASE obj.t = "stream" -> Cardinality(DOMAIN hp.dicts[obj.h]) + 1
      [] obj.t = "ind" /\ hp.body[obj.h].t = "dict" ->
           Cardinality(DOMAIN hp.dicts[hp.body[obj.h].h])
      [] obj.t = "ind" /\ hp.body[obj.h].t = "arr" -> Len(hp.arrays[hp.body[obj.h].h])
      [] OTHER -> 1

\* writeObject(num, obj): the bytes handed to the buffered writer; the first
\* is the first byte of "num 0 obj", the last the last byte of "endobj".
writeObject(hp, num, obj) ==
    [i \in 1..(BodySize(hp, obj) + 2) |-> Byte("obj", num, i)]

\* bufio.Writer over the sink ws: buf is buffered, sink has reached ws.
WriteString(w, bytes) == [w EXCEPT !.buf = @ \o bytes]
Flush(w) == [buf |-> <<>>, sink |-> w.sink \o w.buf]
\* ws.Seek(0, os.SEEK_CUR) on a sink that starts empty.
SeekCur(w) == Len(w.sink)

\* An object loop that takes the offset without flushing the buffer first.
objectOffsetNoFlush(w) == [w |-> w, offset |-> SeekCur(w)]

\* The head of the object loop of Write: flush, then ask the sink where it is.
objectOffset(w) == [w |-> Flush(w), offset |-> SeekCur(Flush(w))]

\* "this.crypter != nil && obj != this.encryptObj" of Write.
needsEncrypt(cr, eobj, obj) == cr # Nil /\ obj # eobj

RECURSIVE writeObjects(_, _, _, _, _)
\* The loop "Write objects" of Write from index idx on.  failAt is the index at
\* which the handler's per-object Encrypt returns an error (0: at none).
\* st: w the writer, offsets, calls the Encrypt invocations, err.
writeObjects(hp, objs, idx, failAt, st) ==
    IF idx > Len(objs) THEN st
    ELSE LET oo  == objectOffset(st.w)
             enc == needsEncrypt(crypter, encryptObj, objs[idx])
             s1  == [st EXCEPT !.w = oo.w, !.offsets = Append(@, oo.offset),
                               !.calls = IF enc
                                         THEN Append(@, [obj |-> objs[idx], num |-> idx, gen |-> 0])
                                         ELSE @]
         IN  IF enc /\ failAt = idx THEN [s1 EXCEPT !.err = "EncryptFailed"]
             ELSE writeObjects(hp, objs, idx + 1, failAt,
                    [s1 EXCEPT !.w = WriteString(@, writeObject(hp, idx, objs[idx]))])

\* The xref table: the entry of object 0, then one entry per offset.
xrefTable(offsets) ==
    <<[offset |-> 0, gen |-> 65535, kind |-> "f"]>> \o
    [i \in 1..Len(offsets) |-> [offset |-> offsets[i], gen |-> 0, kind |-> "n"]]

\* A trailer whose Size leaves out object 0.
trailerShort(objs) ==
    [Info |-> InfoObj, Root |-> Root, Size |-> Len(objs),
     Encrypt |-> IF crypter # Nil THEN encryptObj ELSE Nil,
     ID |-> IF crypter # Nil THEN ids ELSE Nil]

\* The trailer dictionary of Write.
trailer(objs) ==
    [Info |-> InfoObj, Root |-> Root, Size |-> Len(objs) + 1,
     Encrypt |-> IF crypter # Nil THEN encryptObj ELSE Nil,
     ID |-> IF crypter # Nil THEN ids ELSE Nil]

\* "Outlines" and "Acroform" of Write: tree is what ToPdfObject() yields (Nil
\* when the writer has none); it is put in the catalog under key and traversed.
attachTree(ds, ar, st, key, tree) ==
    IF tree = Nil \/ st.err # "ok" THEN {[dicts |-> ds, st |-> st]}
    ELSE LET ds1 == [ds EXCEPT !["catalog"] = Put(@, key, tree)]
             hp  == [dicts |-> ds1, arrays |-> ar, body |-> body]
         IN  {[dicts |-> ds1, st |-> s] : s \in addObjects(hp, tree, st)}

\* What the last Write call produced; NoOut before the first one.
OutRec(written, err, sink, count, xref, tr, startxref, calls, objs) ==
    [written |-> written, err |-> err, sink |-> sink, xrefCount |-> count,
     xref |-> xref, trailer |-> tr, startxref |-> startxref, calls |-> calls,
     objs |-> objs]
NoTrailer == [Info |-> Nil, Root |-> Nil, Size |-> 0, Encrypt |-> Nil, ID |-> Nil]
NoOut == OutRec(FALSE, "ok", <<>>, 0, <<>>, NoTrailer, 0, <<>>, <<>>)

\* Write from the header on: ds, objs are the heap and the object list after
\* the pending check.
writeFile(ds, objs, failAt) ==
    LET hp == [dicts |-> ds, arrays |-> arrays, body |-> body]
        w0 == Flush(WriteString([buf |-> <<>>, sink |-> <<>>], Header))
        r  == writeObjects(hp, objs, 1, failAt,
                           [w |-> w0, offsets |-> <<>>, calls |-> <<>>, err |-> "ok"])
    IN  IF r.err # "ok"
        THEN OutRec(TRUE, r.err, r.w.sink, 0, <<>>, NoTrailer, 0, r.calls, objs)
        ELSE LET w1 == Flush(r.w)
                 xrefOffset == SeekCur(w1)
                 table == xrefTable(r.offsets)
                 w2 == WriteString(w1, <<Byte("xref", 0, 1), Byte("xref", 0, 2)>> \o
                                       [i \in 1..Len(table) |-> Byte("xref", 0, i + 2)])
                 w3 == WriteString(w2, <<Byte("trailer", 0, 1), Byte("startxref", 0, 1),
                                         Byte("eof", 0, 1)>>)
             IN  OutRec(TRUE, "ok", Flush(w3).sink, Len(objs) + 1, table,
                        trailer(objs), xrefOffset, r.calls, objs)

\* Write(ws): the set of its outcomes; each holds the heap, the object list,
\* the pending map, the object numbers and what was written.
write ==
    LET st0 == TravState(objects, pendingObjects)
    IN  UNION { UNION {
          IF b.st.err # "ok"
          THEN {[dicts |-> b.dicts, st |-> b.st, objNum |-> objNum,
                 out |-> OutRec(TRUE, b.st.err, <<>>, 0, <<>>, NoTrailer, 0, <<>>,
                                b.st.objs)]}
          ELSE UNION {
                 LET ds == [d1 EXCEPT !["catalog"] = Put(@, "Version", Name("1.3"))]
                 IN  { [dicts |-> ds, st |-> b.st,
                        objNum |-> updateObjectNumbers(b.st.objs),
                        out |-> writeFile(ds, b.st.objs, failAt)]
                       : failAt \in {0} \cup
                           {i \in 1..Len(b.st.objs) :
                              needsEncrypt(crypter, encryptObj, b.st.objs[i])} }
                 : d1 \in resolvePending(b.dicts, b.st.objs, b.st.pend, DOMAIN b.st.pend) }
          : b \in attachTree(a.dicts, arrays, a.st, "AcroForm", acroForm) }
          : a \in attachTree(dicts, arrays, st0, "Outlines", outlineTree) }

-----------------------------------------------------------------------------
(* The documents the caller hands to the writer.                           *)

\* NewPdfWriter: the heap and the object list it leaves.
NewDicts ==
    [h \in {"info", "catalog", "pages"} |->
        CASE h = "info"    -> [k \in {"Producer", "Creator"} |-> Str(k)]
          [] h = "catalog" -> [k \in {"Type", "Pages"} |->
                                 IF k = "Type" THEN Name("Catalog") ELSE Pages]
          [] h = "pages"   -> [k \in {"Type", "Kids", "Count"} |->
                                 CASE k = "Type" -> Name("Pages")
                                   [] k = "Kids" -> Arr("kids")
                                   [] k = "Count" -> IntV(0)]]
NewArrays == [h \in {"kids"} |-> <<>>]
NewBody == [h \in {"info", "catalog", "pages"} |-> Dict(h)]
NewObjects ==
    addObject(addObject(addObject(<<>>, InfoObj).objs, Root).objs, Pages).objs

\* The value an inheritable field has on the node that carries it.
AttrVal(holder, field) == IF field = "Resources" THEN Ind("res") ELSE Str(holder)
Attrs(holder, carried) == [k \in carried |-> AttrVal(holder, k)]

\* The inheritable fields carried by page p1 and by its ancestors anc1 (the
\* nearer) and anc2, in the page trees the caller may hand over.
AttrCombos ==
    { [p1 |-> {"MediaBox"}, anc1 |-> {"MediaBox", "Resources"},
       anc2 |-> {"MediaBox", "CropBox", "Rotate"}],
      [p1 |-> {}, anc1 |-> {"CropBox"}, anc2 |-> {"MediaBox", "CropBox", "Rotate"}],
      [p1 |-> {"CropBox", "Rotate"}, anc1 |-> {"MediaBox", "Resources"}, anc2 |-> {}],
      [p1 |-> {}, anc1 |-> {}, anc2 |-> {}] }
\* The fields carried in the documents that vary something else.
PlainAttrs == [p1 |-> {}, anc1 |-> {"MediaBox"}, anc2 |-> {"Rotate"}]

\* The shapes of the caller's document:
\*   plain     - every object resolved; annotations a1, a2 name x as Parent;
\*               the inheritable fields vary over AttrCombos
\*   parentRef - annotation a1 has a bare Reference as Parent
\*   bareRef   - annotation a2 has a bare Reference under Dest
\*   alias     - as bareRef, and a2 also holds x under Popup
\*   arrRef    - the Annots array of page p2 holds a bare Reference
\*   nilArr    - the Annots entry of page p2 is a nil array pointer
\*   badAnc    - the ancestor anc2 wraps an array, not a dictionary
\*   olRef     - the outline item oi has a bare Reference under Dest
\*   unresolved - the ancestor anc2 and the form field f2 hold a bare Reference,
\*               anc2 as its Parent, f2 under P
Variants ==
    {"plain", "parentRef", "bareRef", "alias", "arrRef", "nilArr", "badAnc", "olRef",
     "unresolved"}

DocDicts(v, c) ==
    [h \in {"p1", "p2", "anc1", "anc2", "s1", "res", "a1", "a2", "x", "forms",
            "f1", "f2", "f3", "ol", "oi", "af", "ocd"} |->
      CASE h = "p1"   -> Attrs("p1", c.p1) @@
                         [Type |-> Name("Page"), Parent |-> Ind("anc1"),
                          Annots |-> Arr("annots1"), Contents |-> Strm("s1")]
        [] h = "p2"   -> [Type |-> Name("Page"), Parent |-> Ind("anc1"),
                          Annots |-> IF v = "nilArr" THEN NilArr ELSE Arr("annots2"),
                          Contents |-> Strm("s1")]
        [] h = "anc1" -> Attrs("anc1", c.anc1) @@
                         [Type |-> Name("Pages"), Parent |-> Ind("anc2")]
        [] h = "anc2" -> Attrs("anc2", c.anc2) @@ [Type |-> Name("Pages")] @@
                         (IF v = "unresolved" THEN [Parent |-> Ref("r1")] ELSE <<>>)
        [] h = "s1"   -> [Length |-> IntV(1)]
        [] h = "res"  -> [ProcSet |-> Name("PDF")]
        [] h = "a1"   -> [Subtype |-> Name("Link"),
                          Parent |-> IF v = "parentRef" THEN Ref("r1") ELSE Ind("x")]
        [] h = "a2"   -> (IF v \in {"bareRef", "alias"} THEN [Dest |-> Ref("r1")] ELSE <<>>) @@
                         (IF v = "alias" THEN [Popup |-> Ind("x")] ELSE <<>>) @@
                         [Subtype |-> Name("Text"), Parent |-> Ind("x")]
        [] h = "x"    -> [Subtype |-> Name("Widget")]
        [] h = "forms" -> [Fields |-> Arr("flds")]
        [] h = "f1"   -> [T |-> Str("f1"), P |-> Ind("p1")]
        [] h = "f2"   -> [T |-> Str("f2"), Kids |-> Ind("f3")] @@
                         (IF v = "unresolved" THEN [P |-> Ref("r1")] ELSE <<>>)
        [] h = "f3"   -> [P |-> Ind("p2")]
        [] h = "ol"   -> [Type |-> Name("Outlines"), First |-> Ind("oi")]
        [] h = "oi"   -> (IF v = "olRef" THEN [Dest |-> Ref("r1")] ELSE <<>>) @@
                         [Title |-> Str("t"), Parent |-> Ind("ol")]
        [] h = "af"   -> [Fields |-> Arr("flds")]
        [] h = "ocd"  -> [D |-> Ind("a2")]]

DocArrays(v) ==
    [h \in {"annots1", "annots2", "flds", "empty"} |->
      CASE h = "annots1" -> <<Ind("a1"), Ind("a2")>>
        [] h = "annots2" -> IF v = "arrRef" THEN <<Ind("x"), Ref("r1")>> ELSE <<Ind("x")>>
        [] h = "flds"    -> <<Ind("f1"), Ind("f2")>>
        [] h = "empty"   -> <<>>]

DocBody(v) ==
    [h \in {"p1", "p2", "anc1", "anc2", "res", "a1", "a2", "x", "f1", "f2", "f3",
            "ol", "oi", "af", "np"} |->
      IF h = "np" \/ (h = "anc2" /\ v = "badAnc") THEN Arr("empty") ELSE Dict(h)]

\* What callers pass to AddPage as page.ToPdfObject().
PageArgs == {Ind("p1"), Ind("p2"), Ind("anc1"), Ind("x"), Ind("np"), Strm("s1")}

-----------------------------------------------------------------------------
(* The writer as a state machine: one action per call.                     *)

\* The record of a call: the operation, its argument, the error it returned,
\* the error of its traversal, the observations, the state it started in,
\* the pages whose AddPage call failed in its traversal so far, and whether
\* every call so far has returned no error.
Note(op, arg, err, o, valid) ==
    [nops |-> hist.nops + 1, op |-> op, arg |-> arg, err |-> err, terr |-> o.err,
     hit |-> o.hit, ref |-> o.ref, visited |-> hist.visited \cup o.seen,
     preDicts |-> dicts, preObjects |-> objects, valid |-> valid,
     failed |-> hist.failed \cup
                (IF op = "AddPage" /\ err \notin RejectErrors \cup {"ok"} THEN {arg} ELSE {}),
     clean |-> hist.clean /\ err = "ok"]

ScanIdle == [pc |-> "idle"]
\* No inline image being read: im := ContentStreamInlineImage{} has no field set.
NoImage == <<>>
\* ExtractText not running.
TextIdle == [pc |-> "idle"]
\* No AddPage is being run step by step.
CallIdle == [pc |-> "idle"]

Init ==
    /\ \E v \in Variants, c \in AttrCombos \cup {PlainAttrs} :
         /\ (v = "plain") = (c \in AttrCombos)
         /\ dicts = NewDicts @@ DocDicts(v, c)
         /\ arrays = NewArrays @@ DocArrays(v)
         /\ body = NewBody @@ DocBody(v)
    /\ objects = NewObjects
    /\ pendingObjects = <<>>
    /\ fields = <<>>
    /\ outlineTree = Nil
    /\ acroForm = Nil
    /\ crypter = Nil
    /\ encryptObj = Nil
    /\ ids = Nil
    /\ objNum = <<>>
    /\ out = NoOut
    /\ hist = [nops |-> 0, op |-> "NewPdfWriter", arg |-> Nil, err |-> "ok",
               terr |-> "ok", hit |-> FALSE, ref |-> FALSE, visited |-> {},
               preDicts |-> <<>>, preObjects |-> <<>>, valid |-> <<>>,
               failed |-> {}, clean |-> TRUE]
    /\ scan = ScanIdle
    /\ im = NoImage
    /\ text = TextIdle
    /\ call = CallIdle

AddPage ==
    /\ hist.nops < MaxOps
    /\ \E obj \in PageArgs : \E o \in addPage(obj) :
         /\ dicts' = o.dicts
         /\ arrays' = o.arrays
         /\ objects' = o.objs
         /\ pendingObjects' = o.pend
         /\ hist' = Note("AddPage", obj, o.err, o,
                         IF o.err \in RejectErrors THEN hist.valid
                         ELSE Append(hist.valid, obj))
    /\ UNCHANGED <<body, fields, outlineTree, acroForm, crypter, encryptObj, ids,
                   objNum, out, scan,
                   im, text, call>>

\* The observations of a call that traverses nothing.
Quiet == [err |-> "ok", hit |-> FALSE, ref |-> FALSE, seen |-> {}]

\* What callers pass to SetOCProperties and to AddForms.
OCArgs == {Nil, Dict("ocd")}
FormsArgs == {Nil, Dict("forms")}

SetOCProperties ==
    /\ hist.nops < MaxOps
    /\ \E obj \in OCArgs : \E o \in setOCProperties(obj) :
         /\ dicts' = o.dicts
         /\ objects' = o.objs
         /\ pendingObjects' = o.pend
         /\ hist' = Note("SetOCProperties", obj, "ok", o, hist.valid)
    /\ UNCHANGED <<arrays, body, fields, outlineTree, acroForm, crypter, encryptObj,
                   ids, objNum, out, scan,
                   im, text, call>>

AddForms ==
    /\ hist.nops < MaxOps
    /\ \E forms \in FormsArgs :
         LET o == addForms(forms) IN
         /\ objects' = o.objs
         /\ fields' = o.fields
         /\ hist' = Note("AddForms", forms, o.err, [Quiet EXCEPT !.hit = o.hit], hist.valid)
    /\ UNCHANGED <<dicts, arrays, body, pendingObjects, outlineTree, acroForm, crypter,
                   encryptObj, ids, objNum, out, scan,
                   im, text, call>>

\* AddOutlineTree(outlineTree); the tree's ToPdfObject() yields the object ol.
AddOutlineTree ==
    /\ hist.nops < MaxOps
    /\ outlineTree' = Ind("ol")
    /\ hist' = Note("AddOutlineTree", Ind("ol"), "ok", Quiet, hist.valid)
    /\ UNCHANGED <<dicts, arrays, body, objects, pendingObjects, fields, acroForm,
                   crypter, encryptObj, ids, objNum, out, scan,
                   im, text, call>>

\* AddForms2(form); the form's ToPdfObject() yields the object af.
AddForms2 ==
    /\ hist.nops < MaxOps
    /\ acroForm' = Ind("af")
    /\ hist' = Note("AddForms2", Ind("af"), "ok", Quiet, hist.valid)
    /\ UNCHANGED <<dicts, arrays, body, objects, pendingObjects, fields, outlineTree,
                   crypter, encryptObj, ids, objNum, out, scan,
                   im, text, call>>

\* The encryption dictionary Encrypt builds.
encDict ==
    [Filter |-> Name("Standard"), P |-> IntV(-1), V |-> IntV(2), R |-> IntV(3),
     Length |-> IntV(128), O |-> Str("O"), U |-> Str("U")]

\* Encrypt(userPass, ownerPass, options).  rand says whether rand.Read fills
\* its buffer ("" if it does, "norand" if it fails), fail which of Alg3, Alg5
\* returns an error ("ok": neither).  The n-th call makes crypter n, the ids
\* array n and, when it gets that far, the indirect object "enc"n.
EncryptWith(rand) ==
    /\ hist.nops < MaxOps
    /\ \E fail \in {"ok", "Alg3", "Alg5"} :
         LET n  == IF crypter = Nil THEN 1 ELSE crypter.n + 1
             h  == "enc" \o ToString(n)
             io == Ind(h)
             r  == addObject(objects, io)
         IN  /\ crypter' = Val("crypt", IF fail = "ok" THEN "keyed" ELSE "nokey", n)
             /\ ids' = Val("ids", rand, n)
             /\ IF fail # "ok"
                THEN /\ UNCHANGED <<dicts, body, encryptObj, objects>>
                     /\ hist' = Note("Encrypt", Nil, fail, Quiet, hist.valid)
                ELSE /\ dicts' = (h :> encDict) @@ dicts
                     /\ body' = (h :> Dict(h)) @@ body
                     /\ encryptObj' = io
                     /\ objects' = r.objs
                     /\ hist' = Note("Encrypt", io, "ok", [Quiet EXCEPT !.hit = ~r.added],
                                     hist.valid)
    /\ UNCHANGED <<arrays, pendingObjects, fields, outlineTree, acroForm, objNum, out, scan,
                   im, text, call>>

\* Encrypt with a random source that works.
Encrypt == EncryptWith("")

Write ==
    /\ hist.nops < MaxOps
    /\ \E o \in write :
         /\ dicts' = o.dicts
         /\ objects' = o.st.objs
         /\ pendingObjects' = o.st.pend
         /\ objNum' = o.objNum
         /\ out' = o.out
         /\ hist' = Note("Write", Nil, o.out.err, o.st, hist.valid)
    /\ UNCHANGED <<arrays, body, fields, outlineTree, acroForm, crypter, encryptObj,
                   ids, scan, im, text, call>>

Next ==
    \/ AddPage
    \/ SetOCProperties
    \/ AddForms
    \/ AddOutlineTree
    \/ AddForms2
    \/ Encrypt
    \/ Write

Spec == Init /\ [][Next]_vars

-----------------------------------------------------------------------------
(* Properties of the writer.                                               *)

Kids == arrays["kids"]
PageDict(obj) == dicts[body[obj.h].h]
IsPrefix(s, t) == Len(s) =< Len(t) /\ \A i \in 1..Len(s) : s[i] = t[i]

\* C1: the object list never holds the same object twice, so that registering
\* an object already present (the same argument again, or an object reached
\* along a second path) leaves its length as it was.
C1_NoDuplicateObjects ==
    /\ \A i, j \in 1..Len(objects) : objects[i] = objects[j] => i = j
    /\ Cardinality(Range(objects)) = Len(objects)

\* A call met objects that were registered already: a page added before, and
\* objects it shares with another page.
C1_Witness ==
    /\ hist.op = "AddPage" /\ hist.hit /\ hist.err = "ok"
    /\ hasObject(hist.preObjects, hist.arg)
    /\ Len(objects) = Len(hist.preObjects)
    /\ Len(objects) > Len(NewObjects)

\* C2: the root Pages node counts and lists, in call order, exactly the pages
\* of the AddPage calls that got past AddPage's checks of the page and of its
\* ancestors; each of them has the root Pages object as Parent and is
\* registered.
C2_PagesNode ==
    /\ dicts["pages"]["Count"] = IntV(Len(Kids))
    /\ Kids = hist.valid
    /\ \A i \in 1..Len(Kids) :
         /\ Get(PageDict(Kids[i]), "Parent") = Pages
         /\ hasObject(objects, Kids[i])

\* Two different pages are in Kids and the call just made was turned down.
C2_Witness ==
    /\ Len(Kids) = 2 /\ Kids[1] # Kids[2]
    /\ hist.op = "AddPage" /\ hist.err \in RejectErrors

RECURSIVE AncestorChain(_, _)
\* The dictionaries of the ancestors of a node, nearest first: ds are the
\* dictionaries, parent the node's Parent entry.
AncestorChain(ds, parent) ==
    IF parent.t = "ind" /\ body[parent.h].t = "dict"
    THEN <<body[parent.h].h>> \o AncestorChain(ds, Get(ds[body[parent.h].h], "Parent"))
    ELSE <<>>

\* The value of field f the page dictionary pd must end up with, given the
\* dictionaries ds before the call: its own, else that of the ancestor fewest
\* hops away that carries f, else none (Nil).
Inherited(ds, pd, f) ==
    LET chain == AncestorChain(ds, Get(ds[pd], "Parent"))
        have  == {i \in 1..Len(chain) : f \in DOMAIN ds[chain[i]]}
    IN  IF f \in DOMAIN ds[pd] THEN ds[pd][f]
        ELSE IF have = {} THEN Nil
        ELSE ds[chain[CHOOSE i \in have : \A j \in have : i =< j]][f]

\* C3: after AddPage on a page (an indirect dictionary of Type Page), each
\* inheritable field of the page is the page's own value if it had one, else
\* the value of the nearest ancestor that carries it, else still absent.
C3_Inheritance ==
    (hist.op = "AddPage" /\ pageCheck(hist.preDicts, body, hist.arg) = "ok") =>
        \A f \in InheritedFields :
            Get(PageDict(hist.arg), f) = Inherited(hist.preDicts, body[hist.arg.h].h, f)

\* The page took one field from its second ancestor, and another, which both
\* ancestors carry, from the first.
C3_Witness ==
    /\ hist.op = "AddPage" /\ hist.err = "ok" /\ hist.arg = Ind("p1")
    /\ \E f, g \in InheritedFields :
         /\ f \notin DOMAIN hist.preDicts["p1"] /\ f \notin DOMAIN hist.preDicts["anc1"]
         /\ f \in DOMAIN hist.preDicts["anc2"]
         /\ dicts["p1"][f] = hist.preDicts["anc2"][f]
         /\ g \notin DOMAIN hist.preDicts["p1"]
         /\ g \in DOMAIN hist.preDicts["anc1"] /\ g \in DOMAIN hist.preDicts["anc2"]
         /\ hist.preDicts["anc1"][g] # hist.preDicts["anc2"][g]
         /\ dicts["p1"][g] = hist.preDicts["anc1"][g]

\* The first byte of the marker "k 0 obj".
Marker(k) == Byte("obj", k, 1)

\* C4: a completed Write of N objects has Size N+1 in the trailer and N+1
\* xref entries, the free entry of object 0 and then the entries of objects
\* 1..N in order; the offset of object k is the number of bytes that reached
\* the sink before the first byte of its marker, and the offsets increase.
C4_XrefAndTrailer ==
    (out.written /\ out.err = "ok") =>
        LET N == Len(out.objs) IN
        /\ out.trailer.Size = N + 1
        /\ out.xrefCount = N + 1
        /\ Len(out.xref) = N + 1
        /\ out.xref[1] = [offset |-> 0, gen |-> 65535, kind |-> "f"]
        /\ \A k \in 1..N :
             LET e == out.xref[k + 1] IN
             /\ e.kind = "n" /\ e.gen = 0
             /\ e.offset < Len(out.sink)
             /\ out.sink[e.offset + 1] = Marker(k)
             /\ \A j \in 1..e.offset : out.sink[j] # Marker(k)
             /\ k > 1 => out.xref[k].offset < e.offset

\* A completed Write of an encrypted document with at least six objects.
C4_Witness ==
    /\ hist.op = "Write" /\ out.err = "ok"
    /\ Len(out.objs) >= 6
    /\ out.trailer.Encrypt # Nil

\* The markers of the output, in the order written.
Markers == SelectSeq(out.sink, LAMBDA b : b.k = "obj" /\ b.i = 1)

\* C5 (numbering): a Write that gets to number the objects gives the i-th
\* object of the list number i and generation 0, writes the markers 1, 2, ...
\* in that order, puts the offset of marker i in xref entry i, and hands
\* number i to the per-object Encrypt of the i-th object.
C5_Numbers ==
    (out.written /\ out.err \in {"ok", "EncryptFailed"}) =>
        /\ \A i \in 1..Len(out.objs) : objNum[out.objs[i]] = [num |-> i, gen |-> 0]
        /\ \A i \in 1..Len(Markers) : Markers[i] = Marker(i)
        /\ out.err = "ok" => Len(Markers) = Len(out.objs)
        /\ \A i \in 1..(Len(out.xref) - 1) : out.sink[out.xref[i + 1].offset + 1] = Marker(i)
        /\ \A c \in Range(out.calls) :
             c.num \in 1..Len(out.objs) /\ out.objs[c.num] = c.obj /\ c.gen = 0

\* C5 (order): no call removes or moves an object of the list.
C5_OrderKept == IsPrefix(objects, objects')

\* C5: Write numbers the objects 1, 2, ... in insertion order, with generation
\* 0, and uses that number for the marker, the xref position and the
\* per-object encryption; and insertion order is never changed.
C5_ObjectNumbers == []C5_Numbers /\ [][C5_OrderKept]_vars

\* A completed encrypted Write; objects were encrypted under numbers up to 5.
C5_Witness ==
    /\ hist.op = "Write" /\ out.err = "ok"
    /\ Len(out.calls) >= 4
    /\ \E c \in Range(out.calls) : c.num >= 5

\* The Write just made got as far as resolving the pending references.
Resolved == hist.op = "Write" /\ out.err \in {"ok", "EncryptFailed"}

\* C6: once Write has resolved the pending references, every dictionary a
\* traversal has visited has its Parent entry either intact, when the
\* referent is in the object list, or replaced by null, when it is not.
C6_ParentsResolved ==
    Resolved =>
        \A d \in hist.visited :
            LET was == Get(hist.preDicts[d], "Parent") IN
            (was # Nil /\ was # Null) =>
                IF hasObject(objects, was)
                THEN Get(dicts[d], "Parent") = was
                ELSE Get(dicts[d], "Parent") = Null

\* C7: an AddPage whose traversal visits a dictionary with a bare Reference
\* as Parent, or reaches a bare Reference anywhere else, returns an error.
C7_ReferenceIsError ==
    (hist.op = "AddPage" /\ hist.ref) => hist.err # "ok"

\* AddPage came upon a bare Reference as the Parent of an annotation, below
\* the page, after registering objects; it failed with that error.
C7_Witness ==
    /\ hist.op = "AddPage" /\ hist.ref
    /\ hist.err = "ParentIsReference"
    /\ Ref("r1") \in DOMAIN pendingObjects
    /\ Len(objects) > Len(hist.preObjects)

\* The objects that back the encryption dictionaries Encrypt has created.
EncryptObjs == {o \in Range(objects) : o.t = "ind" /\ dicts[o.h] = encDict}

\* C8: in a completed Write of a writer on which Encrypt was called, the
\* per-object Encrypt is invoked on no object backing an encryption dictionary
\* and exactly once on every other object of the list.
C8_EncryptionDictsSkipped ==
    (hist.op = "Write" /\ out.err = "ok" /\ crypter # Nil) =>
        /\ \A c \in Range(out.calls) : c.obj \notin EncryptObjs
        /\ \A o \in Range(out.objs) \ EncryptObjs :
             Cardinality({i \in 1..Len(out.calls) : out.calls[i].obj = o}) = 1

-----------------------------------------------------------------------------
(* ParseInlineImage from the ID operator on.                               *)
(*                                                                         *)
(* scan.input are the bytes the reader has yielded so far, scan.pos how    *)
(* many of them have been consumed (a peeked byte is yielded, not          *)
(* consumed), scan.lead how many were discarded after ID.                  *)
(***************************************************************************)

\* The bytes of the model: two whitespace bytes (space, line feed), the
\* letters of the terminator, and a byte that is none of these.
Bytes == {"sp", "nl", "E", "I", "x"}
IsWhiteSpace(c) == c \in {"sp", "nl"}

\* One turn of the scanning loop on the byte c just read.
scanStep(sc, c) ==
    CASE sc.state = 0 ->
           IF IsWhiteSpace(c)
           THEN [sc EXCEPT !.skipBytes = <<c>>, !.state = 1]
           ELSE [sc EXCEPT !.stream = Append(@, c)]
      [] sc.state = 1 ->
           LET sk == Append(sc.skipBytes, c) IN
           IF c = "E"
           THEN [sc EXCEPT !.skipBytes = sk, !.state = 2]
           ELSE [sc EXCEPT !.skipBytes = sk, !.stream = @ \o sk,
                           !.state = IF IsWhiteSpace(c) THEN 1 ELSE 0]
      [] sc.state = 2 ->
           LET sk == Append(sc.skipBytes, c) IN
           IF c = "I"
           THEN [sc EXCEPT !.skipBytes = sk, !.state = 3]
           ELSE [sc EXCEPT !.skipBytes = sk, !.stream = @ \o sk, !.state = 0]
      [] sc.state = 3 ->
           LET sk == Append(sc.skipBytes, c) IN
           IF IsWhiteSpace(c)
           THEN [sc EXCEPT !.skipBytes = sk, !.pc = "done"]
           ELSE [sc EXCEPT !.skipBytes = sk, !.stream = @ \o sk, !.state = 0]

\* The parser has just read the operand ID.
ScanStart ==
    [pc |-> "ID", input |-> <<>>, pos |-> 0, lead |-> 0, state |-> 0,
     stream |-> <<>>, skipBytes |-> <<>>]

\* "Skip the space if its there": Peek(1), then Discard(1) on whitespace.
\* The reader is at its end (the peek fails) or yields a byte b.
BeginData ==
    /\ scan.pc = "ID"
    /\ \/ scan' = [scan EXCEPT !.pc = "error"]
       \/ \E b \in Bytes :
            scan' = [scan EXCEPT !.pc = "scan", !.input = <<b>>,
                                 !.pos = IF IsWhiteSpace(b) THEN 1 ELSE 0,
                                 !.lead = IF IsWhiteSpace(b) THEN 1 ELSE 0]
    /\ UNCHANGED <<writerVars, im, text, call>>

\* ReadByte yields a byte (the peeked one if it was not discarded): one turn
\* of the loop.
ScanByte ==
    /\ scan.pc = "scan"
    /\ \/ /\ scan.pos < Len(scan.input)
          /\ scan' = scanStep([scan EXCEPT !.pos = @ + 1], scan.input[scan.pos + 1])
       \/ /\ scan.pos = Len(scan.input)
          /\ Len(scan.input) < MaxLen
          /\ \E b \in Bytes :
               scan' = scanStep([scan EXCEPT !.pos = @ + 1, !.input = Append(@, b)], b)
    /\ UNCHANGED <<writerVars, im, text, call>>

\* An end of input that hands back the image read so far.
ScanEndPartial ==
    /\ scan.pc = "scan"
    /\ scan.pos = Len(scan.input)
    /\ scan' = [scan EXCEPT !.pc = "done"]
    /\ UNCHANGED <<writerVars, im, text, call>>

\* ReadByte fails at the end of the input: the parser returns the error.
ScanEnd ==
    /\ scan.pc = "scan"
    /\ scan.pos = Len(scan.input)
    /\ scan' = [scan EXCEPT !.pc = "error"]
    /\ UNCHANGED <<writerVars, im, text, call>>

InitScan ==
    /\ dicts = NewDicts
    /\ arrays = NewArrays
    /\ body = NewBody
    /\ objects = NewObjects
    /\ pendingObjects = <<>>
    /\ fields = <<>>
    /\ outlineTree = Nil
    /\ acroForm = Nil
    /\ crypter = Nil
    /\ encryptObj = Nil
    /\ ids = Nil
    /\ objNum = <<>>
    /\ out = NoOut
    /\ hist = [nops |-> 0, op |-> "NewPdfWriter", arg |-> Nil, err |-> "ok",
               terr |-> "ok", hit |-> FALSE, ref |-> FALSE, visited |-> {},
               preDicts |-> <<>>, preObjects |-> <<>>, valid |-> <<>>,
               failed |-> {}, clean |-> TRUE]
    /\ scan = ScanStart
    /\ im = NoImage
    /\ text = TextIdle
    /\ call = CallIdle

NextScan ==
    \/ BeginData
    \/ ScanByte
    \/ ScanEnd

SpecScan == InitScan /\ [][NextScan]_vars

-----------------------------------------------------------------------------
(* Properties of the scanner.                                              *)

\* The image data: the bytes after ID and the one discarded byte.
Data == SubSeq(scan.input, scan.lead + 1, Len(scan.input))
\* How many bytes of the data have been read.
Consumed == scan.pos - scan.lead
\* The four bytes <whitespace> E I <whitespace> stand at Data[i..i+3].
TerminatorAt(i) ==
    /\ i >= 1 /\ i + 3 =< Len(Data)
    /\ IsWhiteSpace(Data[i]) /\ Data[i + 1] = "E" /\ Data[i + 2] = "I"
    /\ IsWhiteSpace(Data[i + 3])

\* C9: the scanner ends the image at the first <whitespace>EI<whitespace> of
\* the data: where it stops there is one and none before it, and it has
\* stopped as soon as it has read the last byte of the earliest one.
C9_FirstTerminator ==
    scan.pc \in {"scan", "done", "error"} =>
        /\ scan.pc = "done" =>
              /\ TerminatorAt(Consumed - 3)
              /\ \A i \in 1..(Consumed - 4) : ~TerminatorAt(i)
        /\ \A i \in 1..Len(Data) :
              (TerminatorAt(i) /\ Consumed >= i + 3) => (scan.pc = "done" /\ Consumed = i + 3)

\* C10: the payload of a returned image is the data before the terminator
\* the scanner stopped at, byte for byte.
C10_ExactPayload ==
    scan.pc = "done" => scan.stream = SubSeq(Data, 1, Consumed - 4)

-----------------------------------------------------------------------------
(* ExtractText.                                                            *)
(*                                                                         *)
(* text.ops are the operations the loop has gone through, text.inText and  *)
(* text.txt the loop's variables, text.ret the string the call returned.   *)
(* A string is a sequence of pieces: "nl" is the line break.               *)
(***************************************************************************)

\* Number of operations of a content stream.
MaxText == 4

\* The array operand of TJ in the streams of the model: two strings around a
\* kerning number.
TJArray == <<Str("B"), IntV(-20), Str("C")>>

\* A content stream operation: op.Params and op.Operand.
Op(operand, params) == [Operand |-> operand, Params |-> params]

\* The operations Parse yields in the streams of the model: the text
\* operators with a well-typed operand, with none and with an ill-typed one,
\* and an operator ExtractText does not look at.
TextOps ==
    {Op("BT", <<>>), Op("ET", <<>>), Op("Td", <<IntV(1), IntV(2)>>), Op("T*", <<>>),
     Op("Tj", <<Str("A")>>), Op("Tj", <<>>), Op("Tj", <<IntV(1)>>),
     Op("TJ", <<Arr("tj")>>), Op("TJ", <<>>), Op("TJ", <<Str("A")>>),
     Op("q", <<>>)}

\* The strings among the elements of an array, in order.
RECURSIVE arrayStrings(_)
arrayStrings(a) ==
    IF a = <<>> THEN <<>>
    ELSE (IF Head(a).t = "str" THEN <<Head(a).h>> ELSE <<>>) \o arrayStrings(Tail(a))

\* A loop body that does not look at inText.
extractStepAnywhere(st, op) ==
    LET txt1 == IF op.Operand \in {"Td", "TD", "T*"} THEN Append(st.txt, "nl") ELSE st.txt
    IN  IF op.Operand = "Tj" /\ Len(op.Params) >= 1 /\ op.Params[1].t = "str"
        THEN [st EXCEPT !.txt = Append(txt1, op.Params[1].h)]
        ELSE [st EXCEPT !.txt = txt1]

\* The body of the loop over the operations, on operation op.
extractStep(st, op) ==
    LET inText == IF op.Operand = "BT" THEN TRUE
                  ELSE IF op.Operand = "ET" THEN FALSE ELSE st.inText
        txt1 == IF op.Operand \in {"Td", "TD", "T*"} THEN Append(st.txt, "nl") ELSE st.txt
        s1 == [st EXCEPT !.inText = inText, !.txt = txt1]
    IN  IF inText /\ op.Operand = "TJ"
        THEN IF Len(op.Params) < 1 THEN s1
             ELSE IF op.Params[1].t # "arr"
                  THEN [s1 EXCEPT !.pc = "error", !.ret = <<>>]
                  ELSE [s1 EXCEPT !.txt = @ \o arrayStrings(TJArray)]
        ELSE IF inText /\ op.Operand = "Tj"
        THEN IF Len(op.Params) < 1 THEN s1
             ELSE IF op.Params[1].t # "str"
                  THEN [s1 EXCEPT !.pc = "error", !.ret = <<>>]
                  ELSE [s1 EXCEPT !.txt = Append(@, op.Params[1].h)]
        ELSE s1

\* ExtractText has been called.
TextStart ==
    [pc |-> "parse", ops |-> <<>>, inText |-> FALSE, txt |-> <<>>, ret |-> <<>>]

\* operations, err := this.Parse(): the parser fails, or yields operations.
ExtractParse ==
    /\ text.pc = "parse"
    /\ \/ text' = [text EXCEPT !.pc = "parseError"]
       \/ text' = [text EXCEPT !.pc = "loop"]
    /\ UNCHANGED <<writerVars, scan, im, call>>

\* One turn of the loop, on the next operation.
ExtractOp ==
    /\ text.pc = "loop"
    /\ Len(text.ops) < MaxText
    /\ \E op \in TextOps :
         text' = extractStep([text EXCEPT !.ops = Append(@, op)], op)
    /\ UNCHANGED <<writerVars, scan, im, call>>

\* The operations are exhausted: return txt, nil.
ExtractReturn ==
    /\ text.pc = "loop"
    /\ text' = [text EXCEPT !.pc = "done", !.ret = text.txt]
    /\ UNCHANGED <<writerVars, scan, im, call>>

InitText ==
    /\ dicts = NewDicts
    /\ arrays = NewArrays
    /\ body = NewBody
    /\ objects = NewObjects
    /\ pendingObjects = <<>>
    /\ fields = <<>>
    /\ outlineTree = Nil
    /\ acroForm = Nil
    /\ crypter = Nil
    /\ encryptObj = Nil
    /\ ids = Nil
    /\ objNum = <<>>
    /\ out = NoOut
    /\ hist = [nops |-> 0, op |-> "NewPdfWriter", arg |-> Nil, err |-> "ok",
               terr |-> "ok", hit |-> FALSE, ref |-> FALSE, visited |-> {},
               preDicts |-> <<>>, preObjects |-> <<>>, valid |-> <<>>,
               failed |-> {}, clean |-> TRUE]
    /\ scan = ScanIdle
    /\ im = NoImage
    /\ text = TextStart
    /\ call = CallIdle

NextText ==
    \/ ExtractParse
    \/ ExtractOp
    \/ ExtractReturn

SpecText == InitText /\ [][NextText]_vars

-----------------------------------------------------------------------------
(* Properties of ExtractText.                                              *)

\* Operation i of ops stands inside a text object: a BT before it with no ET
\* between the two.
InsideText(ops, i) ==
    \E j \in 1..(i - 1) :
        /\ ops[j].Operand = "BT"
        /\ \A k \in (j + 1)..(i - 1) : ops[k].Operand # "ET"

\* What operation i of ops adds to the text.
Contribution(ops, i) ==
    LET op == ops[i] IN
    IF op.Operand \in {"Td", "TD", "T*"} THEN <<"nl">>
    ELSE IF op.Operand = "Tj" /\ InsideText(ops, i)
         THEN IF Len(op.Params) >= 1 /\ op.Params[1].t = "str"
              THEN <<op.Params[1].h>> ELSE <<>>
    ELSE IF op.Operand = "TJ" /\ InsideText(ops, i)
         THEN IF Len(op.Params) >= 1 /\ op.Params[1].t = "arr"
              THEN <<"B", "C">> ELSE <<>>
    ELSE <<>>

RECURSIVE ExpectedText(_, _)
\* The concatenation of the contributions of operations 1..n of ops.
ExpectedText(ops, n) ==
    IF n = 0 THEN <<>> ELSE ExpectedText(ops, n - 1) \o Contribution(ops, n)

\* Operation i is a Tj or TJ inside a text object whose first operand has the
\* wrong type (not a string for Tj, not an array for TJ).
IllTyped(ops, i) ==
    /\ InsideText(ops, i)
    /\ Len(ops[i].Params) >= 1
    /\ \/ ops[i].Operand = "Tj" /\ ops[i].Params[1].t # "str"
       \/ ops[i].Operand = "TJ" /\ ops[i].Params[1].t # "arr"

\* C11 as stated: whatever the operations, the call returns the concatenation
\* of their contributions.
C11_TextOfEverySequence ==
    text.pc \in {"done", "error"} =>
        text.pc = "done" /\ text.ret = ExpectedText(text.ops, Len(text.ops))

\* C11: when no Tj or TJ inside a text object has a first operand of the
\* wrong type, ExtractText returns the concatenation, in operation order, of a
\* line break per Td, TD, T*, the string of each Tj inside a text object and
\* the strings of the array of each TJ inside a text object; at the first
\* operation that has one it returns an error and the empty string.
C11_ExtractedText ==
    /\ text.pc = "done" =>
          /\ \A i \in 1..Len(text.ops) : ~IllTyped(text.ops, i)
          /\ text.ret = ExpectedText(text.ops, Len(text.ops))
    /\ text.pc = "error" =>
          /\ IllTyped(text.ops, Len(text.ops))
          /\ text.ret = <<>>
    /\ text.pc = "loop" => \A i \in 1..Len(text.ops) : ~IllTyped(text.ops, i)

\* A call returned the strings of a TJ inside a text object and a line break,
\* having passed a Tj outside of it.
C11_Witness ==
    /\ text.pc = "done"
    /\ text.ret = <<"B", "C", "nl">>
    /\ text.ops = <<Op("Tj", <<Str("A")>>), Op("BT", <<>>), Op("TJ", <<Arr("tj")>>),
                    Op("T*", <<>>)>>

-----------------------------------------------------------------------------
(* Properties of the writer: errors.                                       *)

\* The step is a call of operation op.
Call(op) == hist'.nops = hist.nops + 1 /\ hist'.op = op
\* obj is an indirect object wrapping a dictionary whose Type is the name Page.
SerializesToPage(obj) ==
    /\ obj.t = "ind"
    /\ body[obj.h].t = "dict"
    /\ Get(dicts[body[obj.h].h], "Type") = Name("Page")

C12_Step ==
    (Call("AddPage") /\ ~SerializesToPage(hist'.arg)) =>
        /\ hist'.err # "ok"
        /\ objects' = objects
        /\ arrays'["kids"] = arrays["kids"]
        /\ dicts'["pages"]["Count"] = dicts["pages"]["Count"]
        /\ pendingObjects' = pendingObjects
\* C12: AddPage on a page that does not serialize to an indirect object
\* wrapping a dictionary of Type Page returns an error and leaves the object
\* list, the root Kids array, the root Count and the pending map as they were.
C12_InvalidPageRejected == [][C12_Step]_vars

\* AddPage has refused a Pages node after a page had been added.
C12_Witness ==
    /\ hist.op = "AddPage"
    /\ hist.arg = Ind("anc1")
    /\ hist.err = "PageTypeNotPage"
    /\ Len(Kids) >= 1
    /\ pendingObjects # <<>>

RECURSIVE WalkEnd(_, _)
\* The Parent entry at which the ancestor walk comes to its end: parent is the
\* Parent entry of the page, ds the dictionaries before the call.  Nil: an
\* ancestor (or the page) without Parent entry.
WalkEnd(ds, parent) ==
    IF parent.t = "ind" /\ body[parent.h].t = "dict"
    THEN WalkEnd(ds, Get(ds[body[parent.h].h], "Parent"))
    ELSE parent

\* C13: in AddPage's walk a Parent entry that is there and is not an indirect
\* object makes the call fail with the invalid-parent error; the walk ends
\* without that error only at an ancestor without Parent entry.
C13_ParentMustBeIndirect ==
    (hist.op = "AddPage" /\ hist.err \notin RejectErrors \ {"InvalidParent"}) =>
        LET pd == body[hist.arg.h].h
            e  == WalkEnd(hist.preDicts, Get(hist.preDicts[pd], "Parent"))
        IN  (hist.err = "InvalidParent") = (e # Nil)

-----------------------------------------------------------------------------
(* Write to a sink that fails.                                             *)

\* The numbers of bytes a failing sink accepts before it fails every later
\* write: none, or the header and the first byte after it.
SinkCaps == {0, 3}

Min(a, b) == IF a < b THEN a ELSE b

\* What a Write with outcome o on a sound sink does on a sink that accepts
\* cap bytes.  Write drops the results of WriteString and Flush and the error
\* of Seek, so it takes the same path and returns the same value; the
\* buffered writer hands the sink the same bytes until the sink fails and
\* nothing afterwards, and Seek yields the position the sink is stuck at.
onFailingSink(o, cap) ==
    [o EXCEPT !.sink = SubSeq(@, 1, Min(cap, Len(@))),
              !.xref = [i \in DOMAIN @ |-> [@[i] EXCEPT !.offset = Min(@, cap)]],
              !.startxref = Min(@, cap)]

\* Write(ws) on a sink ws that fails after cap bytes.
WriteSinkFails ==
    /\ hist.nops < MaxOps
    /\ \E o \in write : \E cap \in SinkCaps :
         /\ cap < Len(o.out.sink)
         /\ dicts' = o.dicts
         /\ objects' = o.st.objs
         /\ pendingObjects' = o.st.pend
         /\ objNum' = o.objNum
         /\ out' = onFailingSink(o.out, cap)
         /\ hist' = Note("Write", Val("sink", "fails", cap), o.out.err, o.st, hist.valid)
    /\ UNCHANGED <<arrays, body, fields, outlineTree, acroForm, crypter, encryptObj,
                   ids, scan, im, text, call>>

NextSink ==
    \/ AddPage
    \/ WriteSinkFails

SpecSink == Init /\ [][NextSink]_vars

\* C14: Write returns success only when the sink has taken every byte, up to
\* the end-of-file line; a sink that fails makes it return an error.
C14_SinkFailureIsError ==
    (hist.op = "Write" /\ hist.err = "ok") =>
        /\ hist.arg = Nil
        /\ out.sink # <<>>
        /\ out.sink[Len(out.sink)] = Byte("eof", 0, 1)

-----------------------------------------------------------------------------
(* Encrypt with a random source that fails.                                *)

\* Encrypt when rand.Read returns an error.
EncryptRandFails == EncryptWith("norand")

NextRand ==
    \/ AddPage
    \/ EncryptRandFails
    \/ Write

SpecRand == Init /\ [][NextRand]_vars

\* C15: when the random source or the key derivation fails, Encrypt returns an
\* error, and no file is written whose identifiers come from a random source
\* that failed or whose objects went through a crypter without key.
C15_FailedSourceIsError ==
    /\ (hist.op = "Encrypt" /\ ids.h = "norand") => hist.err # "ok"
    /\ (hist.op = "Encrypt" /\ crypter.h = "nokey") => hist.err # "ok"
    /\ (out.written /\ out.err = "ok") =>
          /\ out.trailer.ID.h # "norand"
          /\ out.calls # <<>> => crypter.h = "keyed"

-----------------------------------------------------------------------------
(* Properties of ParseInlineImage: errors.                                 *)

\* C17: an image is returned only when the data holds a
\* <whitespace>EI<whitespace>; when the input ends before one has been read
\* the call is over with the read error and no image, whatever it has
\* gathered in its buffers.
C17_UnterminatedIsError ==
    /\ scan.pc = "done" => \E i \in 1..Len(Data) : TerminatorAt(i)
    /\ scan.pc = "error" => scan.pos = Len(scan.input)

\* The input ended after <whitespace>EI, one byte short of a terminator, with
\* payload gathered.
C17_Witness ==
    /\ scan.pc = "error"
    /\ Data = <<"x", "sp", "E", "I">>
    /\ scan.stream = <<"x">>

-----------------------------------------------------------------------------
(* ParseInlineImage: the parameters before ID.                             *)
(*                                                                         *)
(* scan.pairs are the key/value pairs read so far, scan.err the error the  *)
(* call returned, im the fields of the image.                              *)
(***************************************************************************)

\* Number of key/value pairs in the parameter section.
MaxParams == 2

\* The image field each key is stored in.
FieldOf ==
    [BPC |-> "BitsPerComponent", CS |-> "ColorSpace", D |-> "Decode",
     DP |-> "DecodeParms", F |-> "Filter", H |-> "Height", IM |-> "ImageMask",
     Intent |-> "Intent", I |-> "Interpolate", W |-> "Width"]

\* The names parseObject yields as keys in the streams of the model: the keys
\* of FieldOf, the unabbreviated Width, and a name no image has.
ParamNames == DOMAIN FieldOf \cup {"Width", "X"}
\* The objects parseObject yields as values.
ParamValues == {IntV(1), IntV(2)}

\* A chain of tests in which a key that is set already keeps its value.
setParamFirst(image, param, valueObj) ==
    IF param \notin DOMAIN FieldOf THEN [im |-> image, err |-> "UnknownParameter"]
    ELSE IF FieldOf[param] \in DOMAIN image THEN [im |-> image, err |-> "ok"]
    ELSE [im |-> Put(image, FieldOf[param], valueObj), err |-> "ok"]

\* The chain "if *param == ..." on key param with value valueObj.
setParam(image, param, valueObj) ==
    IF param \in DOMAIN FieldOf
    THEN [im |-> Put(image, FieldOf[param], valueObj), err |-> "ok"]
    ELSE [im |-> image, err |-> "UnknownParameter"]

\* ParseInlineImage has been called (the operator BI has been read).
ParamStart == [pc |-> "params", pairs |-> <<>>, err |-> "ok"]

\* parseObject yields a name and then an object: a key/value pair.
ReadParam ==
    /\ scan.pc = "params"
    /\ Len(scan.pairs) < MaxParams
    /\ \E param \in ParamNames, valueObj \in ParamValues :
         LET r == setParam(im, param, valueObj) IN
         /\ im' = r.im
         /\ scan' = [scan EXCEPT !.pairs = Append(@, <<param, valueObj>>),
                                 !.err = r.err,
                                 !.pc = IF r.err = "ok" THEN "params" ELSE "error"]
    /\ UNCHANGED <<writerVars, text, call>>

\* parseObject fails, or yields something that is no key or no value: the
\* call returns the error.
ReadParamFails ==
    /\ scan.pc = "params"
    /\ \E e \in {"ParseError", "ExpectingName", "NotExpectingOperand", "InvalidOperand"} :
         scan' = [scan EXCEPT !.pc = "error", !.err = e]
    /\ UNCHANGED <<writerVars, im, text, call>>

\* parseObject yields an operand: EI ends the image, ID starts its data, and
\* after any other the loop goes on.
ReadOperand ==
    /\ scan.pc = "params"
    /\ \/ scan' = [scan EXCEPT !.pc = "done"]
       \/ scan' = ScanStart
       \/ scan' = scan
    /\ UNCHANGED <<writerVars, im, text, call>>

InitParams ==
    /\ dicts = NewDicts
    /\ arrays = NewArrays
    /\ body = NewBody
    /\ objects = NewObjects
    /\ pendingObjects = <<>>
    /\ fields = <<>>
    /\ outlineTree = Nil
    /\ acroForm = Nil
    /\ crypter = Nil
    /\ encryptObj = Nil
    /\ ids = Nil
    /\ objNum = <<>>
    /\ out = NoOut
    /\ hist = [nops |-> 0, op |-> "NewPdfWriter", arg |-> Nil, err |-> "ok",
               terr |-> "ok", hit |-> FALSE, ref |-> FALSE, visited |-> {},
               preDicts |-> <<>>, preObjects |-> <<>>, valid |-> <<>>,
               failed |-> {}, clean |-> TRUE]
    /\ scan = ParamStart
    /\ im = NoImage
    /\ text = TextIdle
    /\ call = CallIdle

NextParams ==
    \/ ReadParam
    \/ ReadParamFails
    \/ ReadOperand

SpecParams == InitParams /\ [][NextParams]_vars

\* The pairs read whose key is k, as indices into pairs.
PairsOf(pairs, k) == {i \in 1..Len(pairs) : pairs[i][1] = k}

\* C18: each of the keys BPC, CS, D, DP, F, H, IM, Intent, I, W stores its
\* value in its field of the image, the last value if the key comes twice, and
\* no field is set otherwise; a pair with any other key ends the call with an
\* error and without image.
C18_Parameters ==
    /\ "pairs" \in DOMAIN scan =>
          /\ \A k \in DOMAIN FieldOf :
                LET at == PairsOf(scan.pairs, k) IN
                IF at = {} THEN FieldOf[k] \notin DOMAIN im
                ELSE im[FieldOf[k]] = scan.pairs[CHOOSE i \in at : \A j \in at : j =< i][2]
          /\ DOMAIN im \subseteq {FieldOf[k] : k \in DOMAIN FieldOf}
          /\ (\E i \in 1..Len(scan.pairs) : scan.pairs[i][1] \notin DOMAIN FieldOf) =>
                /\ scan.pc = "error"
                /\ scan.err = "UnknownParameter"
          /\ scan.err = "UnknownParameter" =>
                scan.pairs[Len(scan.pairs)][1] \notin DOMAIN FieldOf

\* The key W was read twice with different values and the image ended.
C18_Witness ==
    /\ scan.pc = "done"
    /\ scan.pairs = <<<<"W", IntV(1)>>, <<"W", IntV(2)>>>>
    /\ im = [Width |-> IntV(2)]

-----------------------------------------------------------------------------
(* Properties of AddForms and SetOCProperties.                             *)

\* The P values seekByName finds for a field.
DiscoveredP(field) ==
    seekByName([dicts |-> dicts, arrays |-> arrays, body |-> body], field,
               {"Fields", "Kids"}, "P")

\* C19: a field AddForms has recorded is registered, and every P value found
\* for it by following Fields and Kids is a registered object; AddForms fails
\* for no other reason than a field or a P that ought to be an indirect
\* object of the writer and is not.
C19_FieldsInScope ==
    /\ \A i \in 1..Len(fields) :
          /\ hasObject(objects, fields[i])
          /\ \A p \in DiscoveredP(fields[i]) : hasObject(objects, p)
    /\ (hist.op = "AddForms" /\ hist.err # "ok") =>
          hist.err \in {"FormsNil", "FieldNotIndirect", "POutsidePages"}

\* C20: when the traversal SetOCProperties makes of its argument comes upon a
\* bare Reference, a nil array or a dictionary whose Parent is a bare
\* Reference, SetOCProperties returns an error.
C20_OCPropertiesError ==
    (hist.op = "SetOCProperties" /\ hist.terr # "ok") => hist.err # "ok"

-----------------------------------------------------------------------------
(* The terminator automaton as the specification words it, beside the      *)
(* scanner.                                                                *)

\* One step of the four-state automaton of the specification on the byte c:
\* in state 1 a whitespace byte is buffered only.
automatonStep(a, c) ==
    CASE a.state = 0 ->
           IF IsWhiteSpace(c)
           THEN [a EXCEPT !.skipBytes = <<c>>, !.state = 1]
           ELSE [a EXCEPT !.stream = Append(@, c)]
      [] a.state = 1 ->
           LET sk == Append(a.skipBytes, c) IN
           IF c = "E" THEN [a EXCEPT !.skipBytes = sk, !.state = 2]
           ELSE IF IsWhiteSpace(c) THEN [a EXCEPT !.skipBytes = sk]
           ELSE [a EXCEPT !.skipBytes = sk, !.stream = @ \o sk, !.state = 0]
      [] a.state = 2 ->
           LET sk == Append(a.skipBytes, c) IN
           IF c = "I" THEN [a EXCEPT !.skipBytes = sk, !.state = 3]
           ELSE [a EXCEPT !.skipBytes = sk, !.stream = @ \o sk, !.state = 0]
      [] a.state = 3 ->
           LET sk == Append(a.skipBytes, c) IN
           IF IsWhiteSpace(c) THEN [a EXCEPT !.skipBytes = sk, !.done = TRUE]
           ELSE [a EXCEPT !.skipBytes = sk, !.stream = @ \o sk, !.state = 0]

\* The automaton after the first n bytes of the sequence bytes; it stops at
\* the terminator.
RECURSIVE automatonRun(_, _)
automatonRun(bytes, n) ==
    IF n = 0 THEN [state |-> 0, stream |-> <<>>, skipBytes |-> <<>>, done |-> FALSE]
    ELSE LET a == automatonRun(bytes, n - 1) IN
         IF a.done THEN a ELSE automatonStep(a, bytes[n])

\* C21: after every byte the scanner is in the state of the specification's
\* automaton run on the same bytes, with the same payload and the same
\* candidate buffer, and it has returned exactly when the automaton has.
C21_SameAsAutomaton ==
    scan.pc \in {"scan", "done"} =>
        LET a == automatonRun(Data, Consumed) IN
        /\ a.state = scan.state
        /\ a.stream = scan.stream
        /\ a.skipBytes = scan.skipBytes
        /\ a.done = (scan.pc = "done")

\* After ID the parser has discarded the next byte exactly when it is
\* whitespace, and the scanner starts on the data in state 0 with an empty
\* payload.
DiscardedAfterID ==
    (scan.pc \in {"scan", "done", "error"} /\ Len(scan.input) >= 1) =>
        /\ scan.lead = (IF IsWhiteSpace(scan.input[1]) THEN 1 ELSE 0)
        /\ scan.pos >= scan.lead
        /\ Consumed = 0 => (scan.state = 0 /\ scan.stream = <<>>)

\* The bytes after ID are <whitespace> E I <whitespace>, and all four have
\* been passed.
EmptyImageRead ==
    /\ scan.pc \in {"scan", "done", "error"}
    /\ scan.pos >= 4
    /\ IsWhiteSpace(scan.input[1]) /\ scan.input[2] = "E" /\ scan.input[3] = "I"
    /\ IsWhiteSpace(scan.input[4])

\* C22: on ID the parser consumes one byte when the next byte is whitespace
\* and none otherwise, that byte is not payload and the scan starts in state 0
\* behind it; and the image written ID <whitespace> E I <whitespace> is
\* returned with an empty payload.
C22_OneByteAfterID ==
    /\ DiscardedAfterID
    /\ EmptyImageRead => (scan.pc = "done" /\ scan.pos = 4 /\ scan.stream = <<>>)

-----------------------------------------------------------------------------
(* AddPage run step by step: one step for each turn of the "for hasParent" *)
(* loop and one for each call and loop turn of addObjects, so that a call  *)
(* that does not return shows as a run that never reaches "returned".      *)
(*                                                                         *)
(* call.parent is the loop's variable parent, call.visited the ancestors   *)
(* the loop has looked at, call.again whether it has looked at one twice,  *)
(* call.stack the calls of addObjects in progress: a frame is the call on  *)
(* value v before its type switch ("visit"), or inside its range loop over *)
(* a dictionary (todo: the entries not yet visited) or an array (i: the    *)
(* next index).                                                            *)
(***************************************************************************)

\* Depth of the addObjects recursion followed by the model.
MaxDepth == 6

\* The page trees handed to AddPage, by what is particular about them:
\*   tree         - an annotation whose Parent is the page
\*   parentUp     - an object whose Parent is an unregistered object that
\*                  holds it as a kid
\*   parentDirect - a direct dictionary whose Parent is the page dictionary
\*   indSelf      - an indirect object that names itself under the key Me
\*   indPair      - two indirect objects that name each other under Next
\*   strmSelf     - a stream whose dictionary names the stream
\*   dictSelf     - a dictionary that holds itself, directly, under Me
\*   arrLoop      - an array holding a dictionary that holds the array
\*   shared       - an object held under two keys
\*   refLeaf      - a bare Reference beside an indirect object
\*   notPage      - a Pages node handed over as a page
\*   noParent, refUp, twoUp, badAnc - no Parent, a Reference as Parent, two
\*                  ancestors, an ancestor that wraps an array
\*   selfLoop, twoLoop, toPage - the Parent of an ancestor is the ancestor
\*                  itself, the nearer ancestor, the page
ContentShapes ==
    {"tree", "parentUp", "parentDirect", "indSelf", "indPair", "strmSelf",
     "dictSelf", "arrLoop", "shared", "refLeaf", "notPage"}
ChainShapes == {"noParent", "refUp", "twoUp", "badAnc", "selfLoop", "twoLoop", "toPage"}
Shapes == ContentShapes \cup ChainShapes

StepDicts(g) ==
    [h \in {"pg", "anc1", "anc2", "a", "b", "d", "s"} |->
      CASE h = "pg" ->
             [Type |-> IF g = "notPage" THEN Name("Pages") ELSE Name("Page")] @@
             (CASE g = "noParent" -> <<>>
                [] g = "refUp"    -> [Parent |-> Ref("r1")]
                [] OTHER          -> [Parent |-> Ind("anc1")]) @@
             (CASE g = "tree"         -> [Annots |-> Arr("as"), Contents |-> Strm("s")]
                [] g \in {"parentUp", "indSelf", "indPair", "dictSelf"} -> [K |-> Ind("a")]
                [] g = "parentDirect" -> [K |-> Dict("d")]
                [] g = "arrLoop"      -> [K |-> Arr("r")]
                [] g = "shared"       -> [K1 |-> Ind("a"), K2 |-> Ind("a")]
                [] g = "refLeaf"      -> [K |-> Ind("a"), Z |-> Ref("r1")]
                [] OTHER              -> [Contents |-> Strm("s")])
        [] h = "anc1" ->
             [Type |-> Name("Pages"), MediaBox |-> Str("anc1")] @@
             (CASE g \in {"twoUp", "twoLoop"} -> [Parent |-> Ind("anc2")]
                [] g = "selfLoop" -> [Parent |-> Ind("anc1")]
                [] g = "toPage"   -> [Parent |-> Ind("pg")]
                [] OTHER          -> <<>>)
        [] h = "anc2" ->
             [Type |-> Name("Pages"), MediaBox |-> Str("anc2"), Rotate |-> Str("anc2")] @@
             (IF g = "twoLoop" THEN [Parent |-> Ind("anc1")] ELSE <<>>)
        [] h = "a" ->
             CASE g = "tree"     -> [Subtype |-> Name("Link"), Parent |-> Ind("pg")]
               [] g = "parentUp" -> [Subtype |-> Name("Link"), Parent |-> Ind("b")]
               [] g = "indSelf"  -> [Me |-> Ind("a")]
               [] g = "indPair"  -> [Next |-> Ind("b")]
               [] g = "dictSelf" -> [Me |-> Dict("a")]
               [] g = "shared"   -> [Contents |-> Strm("s")]
               [] OTHER          -> [Subtype |-> Name("Link")]
        [] h = "b" ->
             CASE g = "parentUp" -> [Kid |-> Ind("a")]
               [] g = "indPair"  -> [Next |-> Ind("a")]
               [] OTHER          -> [Subtype |-> Name("Link")]
        [] h = "d" ->
             CASE g = "parentDirect" -> [Parent |-> Dict("pg")]
               [] g = "arrLoop"      -> [Back |-> Arr("r")]
               [] OTHER              -> [Subtype |-> Name("Link")]
        [] h = "s" ->
             [Length |-> IntV(1)] @@
             (IF g = "strmSelf" THEN [Alt |-> Strm("s")] ELSE <<>>)]

StepArrays(g) ==
    [h \in {"as", "r", "empty"} |->
      CASE h = "as" -> <<Ind("a")>>
        [] h = "r"  -> <<Dict("d")>>
        [] OTHER    -> <<>>]

StepBody(g) ==
    [h \in {"pg", "anc1", "anc2", "a", "b"} |->
      IF h = "anc1" /\ g = "badAnc" THEN Arr("empty") ELSE Dict(h)]

\* obj = page.ToPdfObject() of the step-by-step call.
StepPage == Ind("pg")

Frame(k, v, todo, i) == [k |-> k, v |-> v, todo |-> todo, i |-> i]
Visit(v) == Frame("visit", v, {}, 0)

\* AddPage has been called and has not run yet.
CallStart ==
    [pc |-> "begin", parent |-> Nil, visited |-> {}, again |-> FALSE,
     stack |-> <<>>, err |-> "ok"]
\* The call returns err.
Return(err) == [call EXCEPT !.pc = "returned", !.stack = <<>>, !.err = err]

\* The checks at the top of AddPage, and the first look at the page's Parent.
AddPageBegin ==
    /\ call.pc = "begin"
    /\ LET chk == pageCheck(dicts, body, StepPage) IN
       call' = IF chk # "ok" THEN Return(chk)
               ELSE [call EXCEPT !.pc = "walk",
                                 !.parent = Get(dicts[body[StepPage.h].h], "Parent")]
    /\ UNCHANGED <<dicts, arrays, body, objects, pendingObjects, fields, outlineTree,
                   acroForm, crypter, encryptObj, ids, objNum, out, hist, scan, im, text>>

\* One turn of "for hasParent": parent is an indirect object.
WalkStep ==
    /\ call.pc = "walk"
    /\ call.parent.t = "ind"
    /\ LET pd == body[StepPage.h].h IN
       IF body[call.parent.h].t # "dict"
       THEN /\ call' = Return("InvalidParent")
            /\ UNCHANGED dicts
       ELSE LET parentDict == dicts[body[call.parent.h].h]
                ds1 == [dicts EXCEPT ![pd] = inheritFrom(dicts[pd], parentDict)]
            IN  /\ dicts' = ds1
                /\ call' = [call EXCEPT
                              !.parent = Get(ds1[body[call.parent.h].h], "Parent"),
                              !.visited = @ \cup {call.parent.h},
                              !.again = @ \/ call.parent.h \in call.visited]
    /\ UNCHANGED <<arrays, body, objects, pendingObjects, fields, outlineTree,
                   acroForm, crypter, encryptObj, ids, objNum, out, hist, scan, im, text>>

\* The loop is left (parent is not an indirect object): the page gets the
\* root Pages node as Parent, is appended to Kids, counted and registered,
\* and addObjects is called on its dictionary.
WalkDone ==
    /\ call.pc = "walk"
    /\ call.parent.t # "ind"
    /\ LET pd  == body[StepPage.h].h
           ds1 == [dicts EXCEPT ![pd] = Put(@, "Parent", Pages)]
           ap  == addToPages(ds1, arrays, StepPage)
       IN  /\ dicts' = ap.dicts
           /\ arrays' = ap.arrays
           /\ IF ap.err # "ok"
              THEN /\ call' = Return(ap.err)
                   /\ UNCHANGED objects
              ELSE /\ objects' = addObject(objects, StepPage).objs
                   /\ call' = [call EXCEPT !.pc = "addObjects",
                                           !.stack = <<Visit(Dict(pd))>>]
    /\ UNCHANGED <<body, pendingObjects, fields, outlineTree, acroForm, crypter,
                   encryptObj, ids, objNum, out, hist, scan, im, text>>

\* One step of addObjects: the type switch of the innermost call, or one
\* turn of its range loop.  A call that returns an error makes every caller
\* return it.
AddObjectsStep ==
    /\ call.pc = "addObjects"
    /\ LET top  == call.stack[Len(call.stack)]
           rest == SubSeq(call.stack, 1, Len(call.stack) - 1)
           hp   == [dicts |-> dicts, arrays |-> arrays, body |-> body]
           Pop  == IF rest = <<>> THEN Return("ok") ELSE [call EXCEPT !.stack = rest]
           Replace(f) == [call EXCEPT !.stack = Append(rest, f)]
           Push(f, g) == [call EXCEPT !.stack = Append(Append(rest, f), g)]
       IN
       CASE top.k = "visit" /\ top.v.t \in {"ind", "stream"} ->
              LET r == addObject(objects, top.v) IN
              /\ objects' = r.objs
              /\ call' = IF ~r.added THEN Pop
                         ELSE Replace(Visit(IF top.v.t = "ind" THEN body[top.v.h]
                                            ELSE Dict(top.v.h)))
              /\ UNCHANGED pendingObjects
         [] top.k = "visit" /\ top.v.t = "dict" ->
              /\ call' = Replace(Frame("dict", top.v, ActiveKeys(hp, top.v.h), 0))
              /\ UNCHANGED <<objects, pendingObjects>>
         [] top.k = "visit" /\ top.v.t = "arr" ->
              /\ call' = Replace(Frame("arr", top.v, {}, 1))
              /\ UNCHANGED <<objects, pendingObjects>>
         [] top.k = "visit" /\ top.v.t = "nilarr" ->
              /\ call' = Return("ArrayIsNil")
              /\ UNCHANGED <<objects, pendingObjects>>
         [] top.k = "visit" /\ top.v.t = "ref" ->
              /\ call' = Return("ReferenceNotAllowed")
              /\ UNCHANGED <<objects, pendingObjects>>
         [] top.k = "dict" /\ top.todo = {} ->
              /\ call' = Pop
              /\ UNCHANGED <<objects, pendingObjects>>
         [] top.k = "dict" /\ top.todo # {} ->
              \E key \in top.todo :
                 LET left == [top EXCEPT !.todo = @ \ {key}] IN
                 IF key = "Parent"
                 THEN LET s == parentEntry(hp, top.v.h, TravState(objects, pendingObjects))
                      IN  /\ pendingObjects' = s.pend
                          /\ call' = IF s.err # "ok" THEN Return(s.err) ELSE Replace(left)
                          /\ UNCHANGED objects
                 ELSE /\ Len(call.stack) < MaxDepth
                      /\ call' = Push(left, Visit(dicts[top.v.h][key]))
                      /\ UNCHANGED <<objects, pendingObjects>>
         [] top.k = "arr" /\ top.i > Len(arrays[top.v.h]) ->
              /\ call' = Pop
              /\ UNCHANGED <<objects, pendingObjects>>
         [] top.k = "arr" /\ top.i =< Len(arrays[top.v.h]) ->
              /\ Len(call.stack) < MaxDepth
              /\ call' = Push([top EXCEPT !.i = @ + 1], Visit(arrays[top.v.h][top.i]))
              /\ UNCHANGED <<objects, pendingObjects>>
         [] OTHER ->
              /\ call' = Pop
              /\ UNCHANGED <<objects, pendingObjects>>
    /\ UNCHANGED <<dicts, arrays, body, fields, outlineTree, acroForm, crypter,
                   encryptObj, ids, objNum, out, hist, scan, im, text>>

InitSteps ==
    /\ \E g \in Shapes :
         /\ dicts = NewDicts @@ StepDicts(g)
         /\ arrays = NewArrays @@ StepArrays(g)
         /\ body = NewBody @@ StepBody(g)
    /\ objects = NewObjects
    /\ pendingObjects = <<>>
    /\ fields = <<>>
    /\ outlineTree = Nil
    /\ acroForm = Nil
    /\ crypter = Nil
    /\ encryptObj = Nil
    /\ ids = Nil
    /\ objNum = <<>>
    /\ out = NoOut
    /\ hist = [nops |-> 0, op |-> "NewPdfWriter", arg |-> Nil, err |-> "ok",
               terr |-> "ok", hit |-> FALSE, ref |-> FALSE, visited |-> {},
               preDicts |-> <<>>, preObjects |-> <<>>, valid |-> <<>>,
               failed |-> {}, clean |-> TRUE]
    /\ scan = ScanIdle
    /\ im = NoImage
    /\ text = TextIdle
    /\ call = CallStart

NextSteps ==
    \/ AddPageBegin
    \/ WalkStep
    \/ WalkDone
    \/ AddObjectsStep

\* A call in progress goes on: the program does not stop in the middle of
\* AddPage.
SpecSteps == InitSteps /\ [][NextSteps]_vars /\ WF_vars(NextSteps)

-----------------------------------------------------------------------------
(* Properties of the step-by-step call.                                    *)

\* The values value v holds or wraps, its Parent entry left out.
Succ(v) ==
    CASE v.t = "ind"    -> {body[v.h]}
      [] v.t = "stream" -> {Dict(v.h)}
      [] v.t = "dict"   -> {dicts[v.h][k] : k \in DOMAIN dicts[v.h] \ {"Parent"}}
      [] v.t = "arr"    -> Range(arrays[v.h])
      [] OTHER          -> {}
\* The same, through direct dictionaries and arrays only.
DirectSucc(v) ==
    IF v.t \in {"dict", "arr"} THEN {w \in Succ(v) : w.t \in {"dict", "arr"}} ELSE {}

RECURSIVE ReachFrom(_)
\* The values reachable from the set S through non-Parent edges.
ReachFrom(S) ==
    LET n == S \cup UNION {Succ(v) : v \in S} IN
    IF n = S THEN S ELSE ReachFrom(n)
RECURSIVE DirectReachFrom(_)
DirectReachFrom(S) ==
    LET n == S \cup UNION {DirectSucc(v) : v \in S} IN
    IF n = S THEN S ELSE DirectReachFrom(n)

\* The value addObjects is called on, and what it can reach.
TravRoot == Dict(body[StepPage.h].h)
Reachable == ReachFrom({TravRoot})
\* A cycle of non-Parent edges can be reached; one made of direct
\* dictionaries and arrays only can be reached.
NonParentCycle == \E v \in Reachable : v \in ReachFrom(Succ(v))
DirectCycle == \E v \in Reachable : v \in DirectReachFrom(DirectSucc(v))
\* A cycle that passes through a Parent entry can be reached.
ParentCycle ==
    \E v \in Reachable :
        /\ v.t = "dict" /\ "Parent" \in DOMAIN dicts[v.h]
        /\ v \in ReachFrom({dicts[v.h]["Parent"]})
\* addObjects has been called (the page is registered just before).
Traversed == hasObject(objects, StepPage)
\* The indirect objects and streams within reach are all registered.
AllRegistered ==
    \A v \in Reachable : v.t \in {"ind", "stream"} => hasObject(objects, v)
\* Nothing else has been registered by the call.
OnlyReachable ==
    \A i \in 1..Len(objects) :
        objects[i] \in Reachable \cup Range(NewObjects) \cup {StepPage}

\* C23 as stated: on a graph whose cycles all pass through a Parent entry the
\* traversal returns, and when it has returned every indirect object and
\* stream within reach through non-Parent edges is registered.
C23_TerminatesAndRegistersAll ==
    /\ (call.pc = "addObjects" /\ ~NonParentCycle) ~> (call.pc = "returned")
    /\ [](call.pc = "returned" /\ Traversed /\ ~NonParentCycle => AllRegistered)

\* C23, amended: on such a graph the traversal returns; Parent entries are
\* not followed, so nothing within reach only through them is registered; and
\* when it returns no error every indirect object and stream within reach
\* through non-Parent edges is registered.
C23_ParentCyclesTolerated ==
    /\ (call.pc = "addObjects" /\ ~NonParentCycle) ~> (call.pc = "returned")
    /\ [](Traversed /\ ~NonParentCycle => OnlyReachable)
    /\ [](call.pc = "returned" /\ call.err = "ok" /\ Traversed /\ ~NonParentCycle
            => AllRegistered)

\* The traversal has returned no error on a graph with a cycle through a
\* Parent entry, the referent of which is pending.
C23_Witness ==
    /\ call.pc = "returned" /\ call.err = "ok" /\ Traversed
    /\ ParentCycle /\ ~NonParentCycle
    /\ Ind("b") \in DOMAIN pendingObjects
    /\ hasObject(objects, Ind("a")) /\ ~hasObject(objects, Ind("b"))

\* The addObjects calls in progress hold the same dictionary or array twice:
\* the traversal has come back to a value it is still inside of.
Reentered ==
    \E i, j \in 1..Len(call.stack) :
        /\ i < j
        /\ call.stack[i].k \in {"dict", "arr"} /\ call.stack[j].k = call.stack[i].k
        /\ call.stack[i].v = call.stack[j].v

IndirectCycleReturned ==
    /\ call.pc = "returned" /\ call.err = "ok" /\ NonParentCycle /\ ~DirectCycle
    /\ hasObject(objects, Ind("a")) /\ hasObject(objects, Ind("b"))

\* C25: the ancestor walk of AddPage stops, having looked at no ancestor
\* twice, whatever the Parent chain of the page, a cyclic one included.
C25_WalkStops ==
    /\ (call.pc = "walk") ~> (call.pc # "walk")
    /\ [](~call.again)

-----------------------------------------------------------------------------
(* The pending map, the closure of the object list and the security        *)
(* handler between the writer's operations.                                *)

\* C26: between operations no key of the pending map is an object that is in
\* the object list: an entry goes once its referent has been registered.
C26_PendingOnlyWhileAbsent ==
    \A v \in DOMAIN pendingObjects : ~hasObject(objects, v)

\* The indirect objects and streams within reach of the object list through
\* non-Parent edges.
ReachableFromObjects ==
    {v \in ReachFrom(Range(objects)) : v.t \in {"ind", "stream"}}

\* C27: when Write serializes after calls that all returned no error, every
\* indirect object and stream within reach of a registered object through
\* non-Parent edges is registered, so every object referred to has a number.
C27_ClosedAtWrite ==
    (hist.op = "Write" /\ hist.clean /\ out.err = "ok") =>
        \A v \in ReachableFromObjects : hasObject(objects, v)

\* C28: in every state the security handler is set exactly when an encryption
\* dictionary object exists and is registered, and then its key is derived;
\* so a Write that returns no error either encrypts nothing and writes no
\* Encrypt and ID entries, or encrypts under a derived key and names a
\* registered object, itself not encrypted, as Encrypt in the trailer.
C28_HandlerIffDictionary ==
    /\ (crypter # Nil) <=> (encryptObj # Nil /\ hasObject(objects, encryptObj))
    /\ crypter # Nil => crypter.h = "keyed"
    /\ (hist.op = "Write" /\ out.err = "ok") =>
          \/ /\ out.calls = <<>>
             /\ out.trailer.Encrypt = Nil /\ out.trailer.ID = Nil
          \/ /\ crypter # Nil /\ crypter.h = "keyed"
             /\ hasObject(out.objs, out.trailer.Encrypt)
             /\ \A c \in Range(out.calls) : c.obj # out.trailer.Encrypt

====
